---- MODULE Spec2Model ----
(***************************************************************************)
(* Model of the hcloud SSH key client (hcloud/ssh_key.go) talking to an    *)
(* API server, together with the server lifecycle actions exercised by     *)
(* hcloud/server_test.go.  The client is synchronous: one call at a time.  *)
(***************************************************************************)
EXTENDS Integers, Sequences, FiniteSets, TLC

(* ---------------------------- bounds ---------------------------------- *)
MaxKeys == 4          \* SSH keys ever created on the server (caps nextID)
ServerPageCap == 2    \* largest page the server hands out (the API caps per_page)
MaxListPage == 3      \* largest page number a caller of List asks for

(* ------------------------ program constants --------------------------- *)
AllPerPage == 50      \* opts.PerPage = 50 in SSHKeyClient.All

Names == {"", "a"}
PublicKeys == {"", "k1"}
Faults == {"none", "local", "transport", "api"}
ListPerPages == {1, AllPerPage}
ServerIDs == {1, 12}
ActionIDs == {1, 2}

VARIABLES store, nextID, withMeta, pc, page, opts, allSSHKeys, reqs, fetches, ret

vars == <<store, nextID, withMeta, pc, page, opts, allSSHKeys, reqs, fetches, ret>>

(* ------------------------------ values -------------------------------- *)
NilErr == [kind |-> "nil", code |-> ""]
Error(k, c) == [kind |-> k, code |-> c]

NoMeta == [present |-> FALSE, page |-> 0, last_page |-> 0, per_page |-> 0, total_entries |-> 0]
NilResp == [nil |-> TRUE, status |-> 0, meta |-> NoMeta]
Response(s, m) == [nil |-> FALSE, status |-> s, meta |-> m]

ZeroSchemaKey == [id |-> 0, name |-> "", fingerprint |-> "", public_key |-> ""]
NilKey == [nil |-> TRUE, val |-> <<>>]
NilKeys == [nil |-> TRUE, val |-> <<>>]
NilAction == [nil |-> TRUE, ID |-> 0]
EmptyBody == [ssh_key |-> ZeroSchemaKey, ssh_keys |-> <<>>, action |-> [id |-> 0]]
NoReqBody == [name |-> "", public_key |-> ""]
ZeroListOpts == [Page |-> 0, PerPage |-> 0]
ZeroCreateOpts == [Name |-> "", PublicKey |-> ""]

Min(a, b) == IF a < b THEN a ELSE b
Max(a, b) == IF a > b THEN a ELSE b

RECURSIVE Itoa(_)
\* decimal digits of a non-negative integer, most significant first
Itoa(n) == IF n < 10 THEN <<n>> ELSE Itoa(n \div 10) \o <<n % 10>>

RECURSIVE Atoi(_)
\* value of a digit sequence (the server's parse of a path or query number)
Atoi(d) == IF Len(d) = 0 THEN 0
           ELSE Atoi(SubSeq(d, 1, Len(d) - 1)) * 10 + d[Len(d)]

\* With(v, F): F of the value v, v worked out once however often F uses it.
With(v, F(_)) == CHOOSE r \in {F(x) : x \in {v}} : TRUE

RemoveID(s, i) == SelectSeq(s, LAMBDA k : k.id # i)
SelectIDs(s, i) == SelectSeq(s, LAMBDA k : k.id = i)

(* ------------------------------ requests ------------------------------ *)
\* A request: method, path (collection / id / sub-path), query string, JSON body.
Path(c, i, s) == [collection |-> c, id |-> i, sub |-> s]
Request(m, p, q, b) == [method |-> m, path |-> p, query |-> q, body |-> b]

\* url.Values.Encode of the list options: key=value pairs sorted by key.
valuesForListOpts(o) ==
    <<[key |-> "page", val |-> Itoa(o.Page)], [key |-> "per_page", val |-> Itoa(o.PerPage)]>>

\* r.URL.Query().Get(key): first value of the key, 0 when the key is absent.
QueryGet(q, key) ==
    LET hits == SelectSeq(q, LAMBDA kv : kv.key = key)
    IN IF hits = <<>> THEN 0 ELSE Atoi(hits[1].val)

(* ------------------------------- server ------------------------------- *)
\* The API side.  It is the environment of the client: it keeps the SSH keys
\* in creation order and pages them, at most ServerPageCap keys per page.
Fingerprint(pk) == IF pk = "" THEN "" ELSE "fp-of-key"

EffPerPage(pp) == IF pp <= 0 THEN ServerPageCap ELSE Min(pp, ServerPageCap)
LastPage(st, pp) == Max(1, (Len(st) + EffPerPage(pp) - 1) \div EffPerPage(pp))
ServerPage(st, p, pp) ==
    LET e == EffPerPage(pp)
        lo == (p - 1) * e + 1
        hi == Min(p * e, Len(st))
    IN IF p < 1 \/ lo > hi THEN <<>> ELSE SubSeq(st, lo, hi)
PageMeta(st, p, pp) ==
    [present |-> TRUE, page |-> p, last_page |-> LastPage(st, pp),
     per_page |-> EffPerPage(pp), total_entries |-> Len(st)]

\* Sub-paths the test server registers under /servers/{id}/actions/.
Mux == {"poweron", "reboot", "reset", "shutdown", "poweroff", "reset_password", "create_image"}

\* What the server makes of one request: status, error code, body, meta and
\* its own next state.  aid is the id of the action the server starts.
Reply(s, c, b, m, st, nid) ==
    [status |-> s, code |-> c, body |-> b, meta |-> m, store |-> st, nextID |-> nid]
NotFound(st, nid) == Reply(404, "not_found", EmptyBody, NoMeta, st, nid)

Handle(req, st, nid, meta, aid) ==
    LET p == req.path IN
    CASE p.collection = "ssh_keys" /\ p.id = <<>> /\ req.method = "GET" ->
           LET pg == QueryGet(req.query, "page")
               pp == QueryGet(req.query, "per_page")
           IN IF meta
              THEN Reply(200, "", [EmptyBody EXCEPT !.ssh_keys = ServerPage(st, pg, pp)],
                         PageMeta(st, pg, pp), st, nid)
              ELSE Reply(200, "", [EmptyBody EXCEPT !.ssh_keys = st], NoMeta, st, nid)
      [] p.collection = "ssh_keys" /\ p.id = <<>> /\ req.method = "POST" ->
           LET k == [id |-> nid, name |-> req.body.name,
                     fingerprint |-> Fingerprint(req.body.public_key),
                     public_key |-> req.body.public_key]
           IN Reply(201, "", [EmptyBody EXCEPT !.ssh_key = k], NoMeta, Append(st, k), nid + 1)
      [] p.collection = "ssh_keys" /\ p.id # <<>> /\ req.method = "GET" ->
           LET hit == SelectIDs(st, Atoi(p.id))
           IN IF hit = <<>> THEN NotFound(st, nid)
              ELSE Reply(200, "", [EmptyBody EXCEPT !.ssh_key = hit[1]], NoMeta, st, nid)
      [] p.collection = "ssh_keys" /\ p.id # <<>> /\ req.method = "DELETE" ->
           IF SelectIDs(st, Atoi(p.id)) = <<>> THEN NotFound(st, nid)
           ELSE Reply(204, "", EmptyBody, NoMeta, RemoveID(st, Atoi(p.id)), nid)
      [] p.collection = "servers" /\ p.id # <<>> /\ req.method = "POST" /\ p.sub \in Mux ->
           Reply(201, "", [EmptyBody EXCEPT !.action = [id |-> aid]], NoMeta, st, nid)
      [] OTHER -> NotFound(st, nid)

(* ------------------------------ transport ----------------------------- *)
\* env is what the environment does to one call: env.fault says where it
\* fails (nowhere, building the request, on the wire, in the API) and
\* env.aid is the action id the API hands out.
\* NewRequest: builds the request or fails locally.
NewRequest(m, p, q, b, env) ==
    IF env.fault = "local"
    THEN [req |-> Request(m, p, q, b), err |-> Error("local", "")]
    ELSE [req |-> Request(m, p, q, b), err |-> NilErr]

\* Do: sends the request once; decodes a 2xx body, maps anything else to an
\* error carrying the API's code.  No response comes back from a dead wire.
Do(req, env, st, nid, meta) ==
    CASE env.fault = "transport" ->
           [resp |-> NilResp, err |-> Error("transport", ""), body |-> EmptyBody,
            store |-> st, nextID |-> nid]
      [] env.fault = "api" ->
           [resp |-> Response(500, NoMeta), err |-> Error("api", "service_error"),
            body |-> EmptyBody, store |-> st, nextID |-> nid]
      [] OTHER ->
           With(Handle(req, st, nid, meta, env.aid), LAMBDA h :
             IF h.status >= 200 /\ h.status < 300
             THEN [resp |-> Response(h.status, h.meta), err |-> NilErr, body |-> h.body,
                   store |-> h.store, nextID |-> h.nextID]
             ELSE [resp |-> Response(h.status, NoMeta), err |-> Error("api", h.code),
                   body |-> EmptyBody, store |-> h.store, nextID |-> h.nextID])

\* One entry of the request log: the request and what the transport made of it.
Sent(req, d) == <<[req |-> req, err |-> d.err, resp |-> d.resp]>>

(* --------------------------- SSH key client --------------------------- *)
SSHKeyFromSchema(s) ==
    [ID |-> s.id, Name |-> s.name, Fingerprint |-> s.fingerprint, PublicKey |-> s.public_key]

\* The loop of List over body.SSHKeys: each key converted and appended in turn.
SSHKeysFromSchema(ks) == [i \in 1..Len(ks) |-> SSHKeyFromSchema(ks[i])]

Ptr(k) == [nil |-> FALSE, val |-> <<k>>]
Slice(ks) == [nil |-> FALSE, val |-> ks]

\* What a client method hands back, with the requests it sent and the
\* server state it left behind.
Out(k, ks, a, resp, err, sent, st, nid) ==
    [key |-> k, keys |-> ks, action |-> a, resp |-> resp, err |-> err,
     sent |-> sent, store |-> st, nextID |-> nid]

\* Get as it would be if it handed the Response back with the error.
Get_KeepsResp(id, env, st, nid, meta) ==
    LET nr == NewRequest("GET", Path("ssh_keys", Itoa(id), ""), <<>>, NoReqBody, env)
    IN IF nr.err # NilErr
       THEN Out(NilKey, NilKeys, NilAction, NilResp, nr.err, <<>>, st, nid)
       ELSE With(Do(nr.req, env, st, nid, meta), LAMBDA d :
              IF d.err # NilErr
              THEN Out(NilKey, NilKeys, NilAction, d.resp, d.err, Sent(nr.req, d),
                       d.store, d.nextID)
              ELSE Out(Ptr(SSHKeyFromSchema(d.body.ssh_key)), NilKeys, NilAction, d.resp,
                       NilErr, Sent(nr.req, d), d.store, d.nextID))

\* SSHKeyClient.Get
Get(id, env, st, nid, meta) ==
    LET nr == NewRequest("GET", Path("ssh_keys", Itoa(id), ""), <<>>, NoReqBody, env)
    IN IF nr.err # NilErr
       THEN Out(NilKey, NilKeys, NilAction, NilResp, nr.err, <<>>, st, nid)
       ELSE With(Do(nr.req, env, st, nid, meta), LAMBDA d :
              IF d.err # NilErr
              THEN Out(NilKey, NilKeys, NilAction, NilResp, d.err, Sent(nr.req, d),
                       d.store, d.nextID)
              ELSE Out(Ptr(SSHKeyFromSchema(d.body.ssh_key)), NilKeys, NilAction, d.resp,
                       NilErr, Sent(nr.req, d), d.store, d.nextID))

\* List as it would be if every pointer it appends were the address of the
\* one loop variable: all entries end up as the last key.
List_AliasesLoopVar(o, env, st, nid, meta) ==
    LET nr == NewRequest("GET", Path("ssh_keys", <<>>, ""), valuesForListOpts(o), NoReqBody, env)
    IN IF nr.err # NilErr
       THEN Out(NilKey, NilKeys, NilAction, NilResp, nr.err, <<>>, st, nid)
       ELSE With(Do(nr.req, env, st, nid, meta), LAMBDA d :
              IF d.err # NilErr
              THEN Out(NilKey, NilKeys, NilAction, NilResp, d.err, Sent(nr.req, d),
                       d.store, d.nextID)
              ELSE Out(NilKey,
                       Slice([i \in 1..Len(d.body.ssh_keys) |->
                                SSHKeyFromSchema(d.body.ssh_keys[Len(d.body.ssh_keys)])]),
                       NilAction, d.resp, NilErr, Sent(nr.req, d), d.store, d.nextID))

\* SSHKeyClient.List
List(o, env, st, nid, meta) ==
    LET nr == NewRequest("GET", Path("ssh_keys", <<>>, ""), valuesForListOpts(o), NoReqBody, env)
    IN IF nr.err # NilErr
       THEN Out(NilKey, NilKeys, NilAction, NilResp, nr.err, <<>>, st, nid)
       ELSE With(Do(nr.req, env, st, nid, meta), LAMBDA d :
              IF d.err # NilErr
              THEN Out(NilKey, NilKeys, NilAction, NilResp, d.err, Sent(nr.req, d),
                       d.store, d.nextID)
              ELSE Out(NilKey, Slice(SSHKeysFromSchema(d.body.ssh_keys)), NilAction,
                       d.resp, NilErr, Sent(nr.req, d), d.store, d.nextID))

\* Validate as it would be without the check of the public key.
Validate_NameOnly(o) ==
    IF o.Name = "" THEN Error("validation", "missing name")
    ELSE NilErr

\* SSHKeyCreateOpts.Validate
Validate(o) ==
    IF o.Name = "" THEN Error("validation", "missing name")
    ELSE IF o.PublicKey = "" THEN Error("validation", "missing public key")
    ELSE NilErr

\* json.Marshal of the request body of Create
Marshal(o) == [name |-> o.Name, public_key |-> o.PublicKey]

\* SSHKeyClient.Create
Create(o, env, st, nid, meta) ==
    LET nr == NewRequest("POST", Path("ssh_keys", <<>>, ""), <<>>, Marshal(o), env)
    IN IF Validate(o) # NilErr
       THEN Out(NilKey, NilKeys, NilAction, NilResp, Validate(o), <<>>, st, nid)
       ELSE IF nr.err # NilErr
       THEN Out(NilKey, NilKeys, NilAction, NilResp, nr.err, <<>>, st, nid)
       ELSE With(Do(nr.req, env, st, nid, meta), LAMBDA d :
              IF d.err # NilErr
              THEN Out(NilKey, NilKeys, NilAction, d.resp, d.err, Sent(nr.req, d),
                       d.store, d.nextID)
              ELSE Out(Ptr(SSHKeyFromSchema(d.body.ssh_key)), NilKeys, NilAction, d.resp,
                       NilErr, Sent(nr.req, d), d.store, d.nextID))

\* Delete as it would be if it sent a failed request a second time.
Delete_Retries(id, env, st, nid, meta) ==
    LET nr == NewRequest("DELETE", Path("ssh_keys", Itoa(id), ""), <<>>, NoReqBody, env)
    IN IF nr.err # NilErr
       THEN Out(NilKey, NilKeys, NilAction, NilResp, nr.err, <<>>, st, nid)
       ELSE With(Do(nr.req, env, st, nid, meta), LAMBDA d :
              IF d.err # NilErr
              THEN Out(NilKey, NilKeys, NilAction, d.resp, d.err,
                       Sent(nr.req, d) \o Sent(nr.req, d), d.store, d.nextID)
              ELSE Out(NilKey, NilKeys, NilAction, d.resp, d.err, Sent(nr.req, d),
                       d.store, d.nextID))

\* SSHKeyClient.Delete
Delete(id, env, st, nid, meta) ==
    LET nr == NewRequest("DELETE", Path("ssh_keys", Itoa(id), ""), <<>>, NoReqBody, env)
    IN IF nr.err # NilErr
       THEN Out(NilKey, NilKeys, NilAction, NilResp, nr.err, <<>>, st, nid)
       ELSE With(Do(nr.req, env, st, nid, meta), LAMBDA d :
              Out(NilKey, NilKeys, NilAction, d.resp, d.err, Sent(nr.req, d),
                  d.store, d.nextID))

\* The options of All as they would be with another page size.
AllOpts_OtherPerPage == [Page |-> 0, PerPage |-> 25]

\* SSHKeyClient.All, the options it starts from
AllOpts == [Page |-> 0, PerPage |-> AllPerPage]

\* The callback as it would be if it put a page in front of the keys so far.
AllCallback_Prepends(pg, o, acc, env, st, nid, meta) ==
    LET o2 == [o EXCEPT !.Page = pg]
    IN With(List(o2, env, st, nid, meta), LAMBDA l :
         IF l.err # NilErr
         THEN [opts |-> o2, acc |-> acc, resp |-> l.resp, err |-> l.err, sent |-> l.sent]
         ELSE [opts |-> o2, acc |-> l.keys.val \o acc, resp |-> l.resp, err |-> NilErr,
               sent |-> l.sent])

\* The callback as it would be if it asked for the page after the one it is given.
AllCallback_OffByOne(pg, o, acc, env, st, nid, meta) ==
    LET o2 == [o EXCEPT !.Page = pg + 1]
    IN With(List(o2, env, st, nid, meta), LAMBDA l :
         IF l.err # NilErr
         THEN [opts |-> o2, acc |-> acc, resp |-> l.resp, err |-> l.err, sent |-> l.sent]
         ELSE [opts |-> o2, acc |-> acc \o l.keys.val, resp |-> l.resp, err |-> NilErr,
               sent |-> l.sent])

\* SSHKeyClient.All, the page callback: one List call for page pg, appended
\* to the keys collected so far.
AllCallback(pg, o, acc, env, st, nid, meta) ==
    LET o2 == [o EXCEPT !.Page = pg]
    IN With(List(o2, env, st, nid, meta), LAMBDA l :
         IF l.err # NilErr
         THEN [opts |-> o2, acc |-> acc, resp |-> l.resp, err |-> l.err, sent |-> l.sent]
         ELSE [opts |-> o2, acc |-> acc \o l.keys.val, resp |-> l.resp, err |-> NilErr,
               sent |-> l.sent])

\* Client.all, its stop test: the response is the last page.
IsLastPage(resp) == ~resp.meta.present \/ resp.meta.page = resp.meta.last_page

\* The end of All as it would be if it returned the keys collected so far
\* along with the error.
AllReturn_KeepsPartial(acc, err) ==
    IF err # NilErr THEN [keys |-> Slice(acc), err |-> err]
    ELSE [keys |-> Slice(acc), err |-> NilErr]

\* SSHKeyClient.All, after Client.all has returned err
AllReturn(acc, err) ==
    IF err # NilErr THEN [keys |-> NilKeys, err |-> err]
    ELSE [keys |-> Slice(acc), err |-> NilErr]

(* ---------------------------- server client --------------------------- *)
Lifecycle == {"Poweron", "Poweroff", "Reboot", "Reset", "Shutdown", "ResetPassword", "CreateImage"}

\* The sub-paths as they would be with Poweroff posting to shutdown.
ServerActionSubPath_Mixed(m) ==
    CASE m = "Poweron" -> "poweron"
      [] m = "Poweroff" -> "shutdown"
      [] m = "Reboot" -> "reboot"
      [] m = "Reset" -> "reset"
      [] m = "Shutdown" -> "shutdown"
      [] m = "ResetPassword" -> "reset_password"
      [] m = "CreateImage" -> "create_image"

\* The sub-path each lifecycle method posts to.
ServerActionSubPath(m) ==
    CASE m = "Poweron" -> "poweron"
      [] m = "Poweroff" -> "poweroff"
      [] m = "Reboot" -> "reboot"
      [] m = "Reset" -> "reset"
      [] m = "Shutdown" -> "shutdown"
      [] m = "ResetPassword" -> "reset_password"
      [] m = "CreateImage" -> "create_image"

ActionFromSchema(a) == [nil |-> FALSE, ID |-> a.id]

\* ServerClient.Poweron, Poweroff, ... : POST /servers/{id}/actions/{sub-path}
ServerAction(m, id, env, st, nid, meta) ==
    LET nr == NewRequest("POST", Path("servers", Itoa(id), ServerActionSubPath(m)), <<>>,
                         NoReqBody, env)
    IN IF nr.err # NilErr
       THEN Out(NilKey, NilKeys, NilAction, NilResp, nr.err, <<>>, st, nid)
       ELSE With(Do(nr.req, env, st, nid, meta), LAMBDA d :
              IF d.err # NilErr
              THEN Out(NilKey, NilKeys, NilAction, d.resp, d.err, Sent(nr.req, d),
                       d.store, d.nextID)
              ELSE Out(NilKey, NilKeys, ActionFromSchema(d.body.action), d.resp, NilErr,
                       Sent(nr.req, d), d.store, d.nextID))

(* ------------------------------- actions ------------------------------ *)
Envs == [fault : Faults, aid : {1}]
ActionEnvs == [fault : Faults, aid : ActionIDs]

NoEnv == [fault |-> "none", aid |-> 1]
NoCall == [op |-> "none", id |-> 0, lopts |-> ZeroListOpts, copts |-> ZeroCreateOpts,
           env |-> NoEnv, key |-> NilKey, keys |-> NilKeys, action |-> NilAction,
           resp |-> NilResp, err |-> NilErr]
\* The record of a finished call: what was called with what, what the
\* environment did to it (env), and what came back.
Returned(op, id, lo, co, env, r) ==
    [op |-> op, id |-> id, lopts |-> lo, copts |-> co, env |-> env, key |-> r.key,
     keys |-> r.keys, action |-> r.action, resp |-> r.resp, err |-> r.err]

Init ==
    /\ store = <<>>
    /\ nextID = 1
    /\ withMeta \in BOOLEAN
    /\ pc = "idle"
    /\ page = 0
    /\ opts = ZeroListOpts
    /\ allSSHKeys = <<>>
    /\ reqs = <<>>
    /\ fetches = <<>>
    /\ ret = NoCall

\* A finished call: its result, the requests it sent, the server it left.
Finish(op, id, lo, co, env, r) ==
    /\ ret' = Returned(op, id, lo, co, env, r)
    /\ reqs' = r.sent
    /\ store' = r.store
    /\ nextID' = r.nextID
    /\ fetches' = <<>>
    /\ UNCHANGED <<withMeta, pc, page, opts, allSSHKeys>>

CallGet ==
    /\ pc = "idle"
    /\ \E id \in 1..MaxKeys, env \in Envs :
          \E r \in {Get(id, env, store, nextID, withMeta)} :
             Finish("Get", id, ZeroListOpts, ZeroCreateOpts, env, r)

CallList ==
    /\ pc = "idle"
    /\ \E pg \in 1..MaxListPage, pp \in ListPerPages, env \in Envs :
          \E r \in {List([Page |-> pg, PerPage |-> pp], env, store, nextID, withMeta)} :
             Finish("List", 0, [Page |-> pg, PerPage |-> pp], ZeroCreateOpts, env, r)

\* The server creates at most MaxKeys keys.
CallCreate ==
    /\ pc = "idle"
    /\ \E n \in Names, k \in PublicKeys, env \in Envs :
          \E r \in {Create([Name |-> n, PublicKey |-> k], env, store, nextID, withMeta)} :
             /\ r.nextID <= MaxKeys + 1
             /\ Finish("Create", 0, ZeroListOpts, [Name |-> n, PublicKey |-> k], env, r)

CallDelete ==
    /\ pc = "idle"
    /\ \E id \in 1..MaxKeys, env \in Envs :
          \E r \in {Delete(id, env, store, nextID, withMeta)} :
             Finish("Delete", id, ZeroListOpts, ZeroCreateOpts, env, r)

CallServerAction ==
    /\ pc = "idle"
    /\ \E m \in Lifecycle, id \in ServerIDs, env \in ActionEnvs :
          \E r \in {ServerAction(m, id, env, store, nextID, withMeta)} :
             Finish(m, id, ZeroListOpts, ZeroCreateOpts, env, r)

\* SSHKeyClient.All up to the first turn of the loop of Client.all
AllBegin ==
    /\ pc = "idle"
    /\ pc' = "all"
    /\ allSSHKeys' = <<>>
    /\ opts' = AllOpts
    /\ page' = 1
    /\ reqs' = <<>>
    /\ fetches' = <<>>
    /\ ret' = NoCall
    /\ UNCHANGED <<store, nextID, withMeta>>

\* One turn of the loop of Client.all: the callback fetches the page; an
\* error or the last page ends All, anything else moves to the next page.
AllPage ==
    /\ pc = "all"
    /\ page <= MaxKeys + 1
    /\ \E env \in Envs :
          \E cb \in {AllCallback(page, opts, allSSHKeys, env, store, nextID, withMeta)} :
             /\ reqs' = reqs \o cb.sent
             /\ fetches' = Append(fetches, [page |-> page, fault |-> env.fault, err |-> cb.err])
             /\ IF cb.err # NilErr \/ IsLastPage(cb.resp)
                THEN /\ pc' = "idle"
                     /\ page' = 0
                     /\ opts' = ZeroListOpts
                     /\ allSSHKeys' = <<>>
                     /\ ret' = [NoCall EXCEPT !.op = "All",
                                              !.keys = AllReturn(cb.acc, cb.err).keys,
                                              !.err = AllReturn(cb.acc, cb.err).err]
                ELSE /\ pc' = "all"
                     /\ page' = page + 1
                     /\ opts' = cb.opts
                     /\ allSSHKeys' = cb.acc
                     /\ ret' = ret
    /\ UNCHANGED <<store, nextID, withMeta>>

Next ==
    \/ CallGet
    \/ CallList
    \/ CallCreate
    \/ CallDelete
    \/ CallServerAction
    \/ AllBegin
    \/ AllPage

Spec == Init /\ [][Next]_vars

\* All against a server that Create and Delete fill and empty (the other
\* calls leave the server as it is).  The loop of Client.all runs on once All
\* has been called: All is one synchronous call.
NextAll ==
    \/ CallCreate
    \/ CallDelete
    \/ AllBegin
    \/ AllPage

LiveSpec == Init /\ [][NextAll]_vars /\ WF_vars(AllPage)

(* ------------------------------- claims ------------------------------- *)
RECURSIVE Concat(_)
Concat(ps) == IF ps = <<>> THEN <<>> ELSE Head(ps) \o Concat(Tail(ps))

\* The pages the server holds for a client asking AllPerPage keys per page.
PagesHeld ==
    IF withMeta
    THEN [p \in 1..LastPage(store, AllPerPage) |-> ServerPage(store, p, AllPerPage)]
    ELSE <<store>>

AllReturned == pc = "idle" /\ ret.op = "All"
InAll == pc = "all" \/ ret.op = "All"
Undisturbed == \A i \in 1..Len(fetches) : fetches[i].fault = "none"
ReqPage(i) == QueryGet(reqs[i].req.query, "page")
ReqPerPage(i) == QueryGet(reqs[i].req.query, "per_page")
Simple == {"Get", "List", "Create", "Delete"}

\* C1: when every page request of All is answered successfully, All returns
\* a nil error and the server's pages 1..N concatenated in page order, each
\* page in its own order, every key exactly once.
C1_AllConcatenatesPages ==
    (AllReturned /\ Undisturbed) =>
        /\ ret.err = NilErr
        /\ ~ret.keys.nil
        /\ ret.keys.val = [i \in 1..Len(Concat(PagesHeld)) |->
                               SSHKeyFromSchema(Concat(PagesHeld)[i])]
        /\ Len(ret.keys.val) = Len(store)
        /\ \A i, j \in 1..Len(ret.keys.val) : ret.keys.val[i].ID = ret.keys.val[j].ID => i = j
        /\ Len(fetches) = Len(PagesHeld)

C1_Witness ==
    /\ AllReturned /\ Undisturbed
    /\ Len(PagesHeld) >= 2
    /\ Len(PagesHeld[1]) >= 2
    /\ Len(ret.keys.val) >= 3

\* C2: a Get that the API answers with the not-found code returns a nil key
\* and a nil error.
C2_GetNotFoundIsAbsent ==
    (ret.op = "Get" /\ reqs # <<>> /\ reqs[1].err = Error("api", "not_found")) =>
        (ret.key.nil /\ ret.err = NilErr)

\* C3: Create with an empty Name or an empty PublicKey returns a validation
\* error and a nil key and sends no request; a Create that sent a request
\* had options that Validate accepts.
C3_CreateValidatesFirst ==
    ret.op = "Create" =>
        /\ (ret.copts.Name = "" \/ ret.copts.PublicKey = "") =>
              (ret.err.kind = "validation" /\ ret.key.nil /\ ret.resp.nil /\ reqs = <<>>)
        /\ reqs # <<>> => (ret.copts.Name # "" /\ ret.copts.PublicKey # "")

C3_Witness ==
    /\ ret.op = "Create" /\ ret.copts.Name # "" /\ ret.copts.PublicKey = ""
    /\ ret.env.fault = "local"
    /\ store # <<>>

\* C4 (safety): during one All the callback is invoked with pages 1, 2, 3, ...
\* and each request carries that page; a response that is the last page (or
\* has no pagination) is the last one of the call, the call does not stop
\* earlier, and a server reporting lastPage = N is asked exactly N times.
C4_PagesInOrder ==
    InAll =>
        /\ \A i \in 1..Len(fetches) : fetches[i].page = i
        /\ Len(reqs) <= Len(fetches)
        /\ \A i \in 1..Len(reqs) : ReqPage(i) = i
        /\ \A i \in 1..Len(reqs) :
              (reqs[i].err = NilErr /\ IsLastPage(reqs[i].resp)) => (i = Len(reqs) /\ pc = "idle")
        /\ (AllReturned /\ ret.err = NilErr) =>
              /\ reqs # <<>> /\ IsLastPage(reqs[Len(reqs)].resp)
              /\ withMeta => Len(reqs) = LastPage(store, AllPerPage)
        /\ pc = "all" => page = Len(fetches) + 1
        /\ Len(fetches) <= Len(PagesHeld)

\* C4: the page order above, and every All call terminates.
C4_AllPagesThenStops == []C4_PagesInOrder /\ ((pc = "all") ~> (pc = "idle"))

C4_Witness ==
    /\ AllReturned /\ ret.err = NilErr /\ withMeta
    /\ Len(reqs) >= 2

\* C5: a failing page ends All: the error of that page is returned with a
\* nil result, the page is the last one asked for and no page is asked twice.
C5_AllStopsOnFirstError ==
    InAll =>
        /\ \A i \in 1..Len(fetches) :
              fetches[i].err # NilErr =>
                 /\ i = Len(fetches)
                 /\ AllReturned
                 /\ ret.err = fetches[i].err
                 /\ ret.keys.nil /\ ret.keys.val = <<>>
        /\ \A i, j \in 1..Len(fetches) : fetches[i].page = fetches[j].page => i = j
        /\ \A i, j \in 1..Len(reqs) : ReqPage(i) = ReqPage(j) => i = j
        /\ \A i \in 1..Len(reqs) : reqs[i].err # NilErr => (i = Len(reqs) /\ ret.err = reqs[i].err)

C5_Witness ==
    /\ AllReturned /\ ret.err # NilErr
    /\ Len(fetches) = 2 /\ Len(reqs) = 2
    /\ Len(store) >= 3

\* C6: List sends one GET whose query carries the caller's Page and PerPage,
\* and returns the keys of that response page, in order, as many as it holds.
C6_ListIsOnePage ==
    ret.op = "List" =>
        /\ Len(reqs) <= 1
        /\ ret.env.fault # "local" =>
              /\ Len(reqs) = 1
              /\ reqs[1].req.method = "GET"
              /\ reqs[1].req.path = Path("ssh_keys", <<>>, "")
              /\ ReqPage(1) = ret.lopts.Page
              /\ ReqPerPage(1) = ret.lopts.PerPage
        /\ ret.err = NilErr =>
              LET sentPage == IF withMeta
                              THEN ServerPage(store, ret.lopts.Page, ret.lopts.PerPage)
                              ELSE store
              IN /\ ~ret.keys.nil
                 /\ Len(ret.keys.val) = Len(sentPage)
                 /\ \A i \in 1..Len(sentPage) :
                       /\ ret.keys.val[i].ID = sentPage[i].id
                       /\ ret.keys.val[i].Name = sentPage[i].name
                       /\ ret.keys.val[i].Fingerprint = sentPage[i].fingerprint
                       /\ ret.keys.val[i].PublicKey = sentPage[i].public_key

C6_Witness ==
    /\ ret.op = "List" /\ ret.err = NilErr /\ withMeta
    /\ ret.lopts.Page = 2 /\ ret.lopts.PerPage = AllPerPage
    /\ Len(ret.keys.val) = 2
    /\ Len(store) = 4

\* C7: Get, List, Create and Delete send at most one request, and the error
\* of a failed request (the not-found answer to Get aside) is returned as is.
C7_NoRetryErrorsUntouched ==
    ret.op \in Simple =>
        /\ Len(reqs) <= 1
        /\ (/\ reqs # <<>>
            /\ reqs[1].err # NilErr
            /\ ~(ret.op = "Get" /\ reqs[1].err = Error("api", "not_found")))
           => ret.err = reqs[1].err

C7_Witness ==
    /\ ret.op = "Delete" /\ Len(reqs) = 1
    /\ reqs[1].err = Error("api", "not_found")
    /\ ret.err = reqs[1].err

\* C8: every request of one All asks for AllPerPage keys per page; only the
\* page number differs between its requests.
C8_AllPerPageFixed ==
    InAll =>
        /\ \A i \in 1..Len(reqs) : ReqPerPage(i) = 50
        /\ \A i, j \in 1..Len(reqs) :
              /\ reqs[i].req.method = reqs[j].req.method
              /\ reqs[i].req.path = reqs[j].req.path
              /\ reqs[i].req.body = reqs[j].req.body
              /\ i # j => ReqPage(i) # ReqPage(j)
        /\ pc = "all" => opts.PerPage = 50

C8_Witness ==
    /\ InAll /\ Len(reqs) >= 2
    /\ ReqPerPage(1) = 50 /\ ReqPerPage(2) = 50

\* The sub-paths of the lifecycle actions, as the API documents them.
DocumentedSubPath ==
    [Poweron |-> "poweron", Poweroff |-> "poweroff", Reboot |-> "reboot", Reset |-> "reset",
     Shutdown |-> "shutdown", ResetPassword |-> "reset_password",
     CreateImage |-> "create_image"]

\* C9: a lifecycle method on server id sends one POST to
\* /servers/{id}/actions/{its sub-path} and, on success, returns the action
\* whose ID the response carries.
C9_LifecyclePostsToSubPath ==
    ret.op \in Lifecycle =>
        /\ Len(reqs) <= 1
        /\ ret.env.fault # "local" =>
              /\ Len(reqs) = 1
              /\ reqs[1].req.method = "POST"
              /\ reqs[1].req.path.collection = "servers"
              /\ Atoi(reqs[1].req.path.id) = ret.id
              /\ reqs[1].req.path.sub = DocumentedSubPath[ret.op]
        /\ ret.env.fault = "none" =>
              (ret.err = NilErr /\ ~ret.action.nil /\ ret.action.ID = ret.env.aid)

C9_Witness ==
    /\ ret.op = "ResetPassword" /\ ret.id = 12 /\ ret.err = NilErr
    /\ ret.action.ID = 2

\* C10: a non-nil error of Get, List, Create or All comes with a nil key or
\* list; Get and List then return a nil Response, Create returns the
\* transport's Response when its request was sent and failed.
C10_ErrorMeansNilResult ==
    (ret.op \in {"Get", "List", "Create", "All"} /\ ret.err # NilErr) =>
        /\ ret.key.nil /\ ret.key.val = <<>>
        /\ ret.keys.nil /\ ret.keys.val = <<>>
        /\ ret.op \in {"Get", "List"} => ret.resp.nil
        /\ (ret.op = "Create" /\ reqs # <<>>) => ret.resp = reqs[1].resp
        /\ (ret.op = "Create" /\ reqs = <<>>) => ret.resp.nil

C10_Witness ==
    /\ ret.op = "Create" /\ ret.err = Error("api", "service_error")
    /\ ~ret.resp.nil /\ ret.resp.status = 500
    /\ ret.key.nil

====
